---- MODULE Spec2Model ----
(***************************************************************************)
(* The two threaded crawlers of the repository,                            *)
(*   src/src/data_collection/crawler.py          (script "crawler")        *)
(*   src/src/data_collection/crawlers/crawler.py (script "crawlers")       *)
(* as one state machine: the shared sets, the lock, the queue, the pool's  *)
(* tasks and the main thread's loop.  URLs are strings; the string         *)
(* functions of the scripts (urlparse, startswith, replace, split, rstrip, *)
(* `in`) are computed character by character.                              *)
(* The other scripts have specifications of their own in the same module:  *)
(*   scrapper.py (SpecAll, with the crawlers), depth_of (SpecDepth),       *)
(*   cleaner.py (SpecClean, SpecBread), donwload_image.py (SpecDownload)   *)
(*   and src/crawling.py (SpecCrawling).                                   *)
(***************************************************************************)
EXTENDS Integers, Sequences, FiniteSets, TLC

VARIABLES
    script,       \* which script runs: "crawler", "crawlers", "scraper" ("" : none)
    visited,      \* visited = set()
    saved,        \* crawler.py: saved = set()
    level4_urls,  \* crawlers/crawler.py: level4_urls = set()
    queue,        \* the list / deque of URLs to crawl
    lock,         \* threading.Lock(): Unlocked, or the task that acquired it
    csv,          \* the rows of the output file, header first
    futures,      \* the futures the main thread holds (task slots)
    task,         \* per slot: the process() call of that future
    mpc,          \* main thread: where crawl() / crawl_category() stands
    handled,      \* futures whose result the as_completed loop has taken
    links,        \* the links of the future being handled, still to enqueue
    claims,       \* history: per URL, how many tasks passed the visited check
    fetches,      \* history: per URL, how many times fetch(url) was called
    failed,       \* history: URLs for which a fetch returned None
    lost,         \* history: URLs whose append to the csv file raised OSError
    appended,     \* history: the URLs put in the queue since the crawl started
    run,          \* how many times the script has been started
    category,     \* crawlers/crawler.py: which of CATEGORIES is crawled (0: none)
    files,        \* crawlers/crawler.py: per category, its csv file as the crawl of
                  \* that category left it (<<>>: the file does not exist)
    d_url,        \* depth_of under test: its url argument
    d_root,       \* depth_of under test: its root_path argument
    d_depth,      \* depth_of under test: its result (0: not yet called)
    cl_pc,        \* cleaner.py: where its __main__ stands
    df_name,      \* cleaner.py: the name column of df, row by row
    bc_url,       \* extract_breadcrumbs_from_url under test: its argument
    bc_out,       \* extract_breadcrumbs_from_url under test: its result
    df,           \* donwload_image.py: df, the rows of data/produits.csv
    dl_pc,        \* donwload_image.py: where the script stands
    dl_index,     \* donwload_image.py: index, the row of df being processed
    dl_image,     \* donwload_image.py: how many urls of the row have been tried
    local_paths,  \* donwload_image.py: local_paths
    updated_paths,\* donwload_image.py: updated_paths
    output_file,  \* donwload_image.py: the image column of data/produits_local.csv
                  \* on disk, row by row
    c4_pc,        \* crawling.py crawl_category: where it stands
    c4_url,       \* crawling.py crawl_category: url, the category's URL
    c4_page,      \* crawling.py crawl_category: page.url of the page crawled
    level4_data,  \* crawling.py crawl_category: level4_data
    c4_file       \* crawling.py: the rows of data/urls/<name>.csv

vars == <<script, visited, saved, level4_urls, queue, lock, csv, futures, task,
          mpc, handled, links, claims, fetches, failed, lost, run, category, files, appended,
          d_url, d_root, d_depth, cl_pc, df_name, bc_url, bc_out,
          df, dl_pc, dl_index, dl_image, local_paths, updated_paths, output_file,
          c4_pc, c4_url, c4_page, level4_data, c4_file>>

crawlVars == <<script, visited, saved, level4_urls, queue, lock, csv, futures,
               task, mpc, handled, links, claims, fetches, failed, lost, appended,
               run, category, files>>

depthVars == <<d_url, d_root, d_depth>>

cleanVars == <<cl_pc, df_name>>

breadVars == <<bc_url, bc_out>>

downloadVars == <<df, dl_pc, dl_index, dl_image, local_paths, updated_paths, output_file>>

crawlingVars == <<c4_pc, c4_url, c4_page, level4_data, c4_file>>

\* the variables of the other scripts
toolVars == <<cleanVars, breadVars, downloadVars, crawlingVars>>

(***************************************************************************)
(* Python str operations.                                                  *)
(***************************************************************************)
Char(s, i) == SubSeq(s, i, i)

\* s[i:] with a 1-based i
From(s, i) == SubSeq(s, i, Len(s))

\* s.startswith(p)
StartsWith(s, p) == Len(p) <= Len(s) /\ SubSeq(s, 1, Len(p)) = p

\* s.endswith(p)
EndsWith(s, p) == Len(p) <= Len(s) /\ SubSeq(s, Len(s) - Len(p) + 1, Len(s)) = p

\* p in s
Contains(s, p) == \E i \in 1..(Len(s) - Len(p) + 1) : SubSeq(s, i, i + Len(p) - 1) = p

\* s.rstrip(c)
RECURSIVE RStrip(_, _)
RStrip(s, c) ==
    IF Len(s) > 0 /\ Char(s, Len(s)) = c THEN RStrip(SubSeq(s, 1, Len(s) - 1), c) ELSE s

\* s.replace(old, ""), old non-empty: every non-overlapping occurrence, leftmost first
RECURSIVE Remove(_, _)
Remove(s, old) ==
    IF Len(s) = 0 THEN ""
    ELSE IF StartsWith(s, old) THEN Remove(From(s, Len(old) + 1), old)
    ELSE Char(s, 1) \o Remove(From(s, 2), old)

\* the first position >= i of s holding a character of cs, Len(s) + 1 if none
RECURSIVE Find(_, _, _)
Find(s, i, cs) ==
    IF i > Len(s) THEN Len(s) + 1
    ELSE IF Char(s, i) \in cs THEN i
    ELSE Find(s, i + 1, cs)

\* s.split("#")[0]
BeforeHash(s) == SubSeq(s, 1, Find(s, 1, {"#"}) - 1)

\* len([p for p in s.split("/") if p])
RECURSIVE NonEmptyParts(_)
NonEmptyParts(s) ==
    IF Len(s) = 0 THEN 0
    ELSE IF Char(s, 1) = "/" THEN NonEmptyParts(From(s, 2))
    ELSE LET e == Find(s, 1, {"/"}) IN 1 + NonEmptyParts(From(s, e))

(***************************************************************************)
(* urllib.parse.urlparse, for URLs of the form scheme://netloc/path?q#f    *)
(* (no ";" parameters occur in the URLs of the model).                     *)
(***************************************************************************)
\* position of the first character after "scheme://"
AfterScheme(url) == Find(url, 1, {":"}) + 3

\* urlparse(url).netloc
Netloc(url) == SubSeq(url, AfterScheme(url), Find(url, AfterScheme(url), {"/", "?", "#"}) - 1)

\* urlparse(url).path
Path(url) ==
    LET p == Find(url, AfterScheme(url), {"/", "?", "#"})
    IN  SubSeq(url, p, Find(url, p, {"?", "#"}) - 1)

(***************************************************************************)
(* crawlers/crawler.py: depth_of                                           *)
(***************************************************************************)
depth_of(url, root_path) ==
    LET path == Path(url)
        sub == Remove(path, root_path)
    IN  NonEmptyParts(sub) + 1

(***************************************************************************)
(* Configuration.  MAX_WORKERS is 15 (crawler.py) and 10 (crawlers/):      *)
(* the model runs a smaller pool.  crawlers/crawler.py is run for its      *)
(* first category, "maquillage".                                           *)
(***************************************************************************)
MAX_WORKERS == 2

TARGET_LEVEL == 4

\* a run's fetches that may fail (status other than 200, timeout, exception)
MaxFetchFailures == 1

\* DOMAIN (a reserved word of TLA+)
SITE_DOMAIN == "revolutionbeauty.com"

Origin == "https://www.revolutionbeauty.com"

START_URLS ==
    <<Origin \o "/intl/fr/maquillage/", Origin \o "/intl/fr/soin/",
      Origin \o "/intl/fr/cheveux/", Origin \o "/intl/fr/corps/">>

ALLOWED_PATHS ==
    {"/intl/fr/maquillage/", "/intl/fr/soin/", "/intl/fr/cheveux/", "/intl/fr/corps/"}

\* CATEGORIES.values(), in the order of the dict: maquillage, soin, cheveux, corps
CATEGORIES == START_URLS

\* the base_url __main__ passes to crawl_category
base_url == CATEGORIES[category]

\* root_path = urlparse(base_url).path
root_path_of_run == Path(base_url)

(***************************************************************************)
(* The site: the pages a fetch can return, each with the href attributes   *)
(* of its <a> tags in document order.                                      *)
(***************************************************************************)
Teint == Origin \o "/intl/fr/maquillage/teint"
Blush == Origin \o "/intl/fr/maquillage/teint/blush"
Rose == Origin \o "/intl/fr/maquillage/teint/blush/blush-rose.html"
Swatch == Origin \o "/intl/fr/maquillage/teint/blush/swatches/rose.html"
Nude == Origin \o "/intl/fr/maquillage/teint/blush/blush-nude.html"
Lookalike == "https://revolutionbeauty.com.evil.example/intl/fr/maquillage/teint"
Foreign == "https://other-domain.example/intl/fr/maquillage/x.html"
Blog == Origin \o "/intl/fr/blog/"

Hrefs(url) ==
    CASE url = START_URLS[1] ->
            <<"/intl/fr/maquillage/teint/", Origin \o "/intl/fr/maquillage/#top",
              Foreign, "/intl/fr/blog/", Lookalike>>
      [] url = START_URLS[2] -> <<Rose>>
      [] url = Teint -> <<"/intl/fr/maquillage/teint/blush/", Rose, "/intl/fr/maquillage/teint/">>
      [] url = Blush -> <<Rose, Teint \o "/", Swatch, Rose \o "#avis">>
      [] url = Rose -> <<Nude, Blush>>
      [] OTHER -> <<>>

\* get_title: the text of the page's first <h1>, "" if it has none
get_title(url) ==
    CASE url = Rose -> "Blush Rose"
      [] url = Nude -> "Blush Nude"
      [] OTHER -> ""

\* every URL a run can put in the queue
Urls ==
    {START_URLS[1], START_URLS[2], START_URLS[3], START_URLS[4], Teint, Blush, Rose, Swatch, Nude, Lookalike}

(***************************************************************************)
(* URL helpers of the two scripts.                                         *)
(***************************************************************************)
\* urljoin(base, href) for an absolute href and for a href that starts with "/"
urljoin(base, href) ==
    IF Contains(href, "://") THEN href
    ELSE SubSeq(base, 1, Find(base, AfterScheme(base), {"/", "?", "#"}) - 1) \o href

is_internal(url) == Contains(Netloc(url), SITE_DOMAIN)

is_allowed_path(url) == \E p \in ALLOWED_PATHS : StartsWith(Path(url), p)

is_product_page(url) == EndsWith(url, ".html") /\ is_allowed_path(url)

\* crawler.py extract_links: the set `links`
RECURSIVE LinkSet(_, _)
LinkSet(hrefs, base) ==
    IF hrefs = <<>> THEN {}
    ELSE LET url == RStrip(BeforeHash(urljoin(base, Head(hrefs))), "/")
             rest == LinkSet(Tail(hrefs), base)
         IN  IF is_internal(url) /\ is_allowed_path(url) THEN {url} \cup rest ELSE rest

\* list(links): a Python set of str iterates in an order that varies from run to run
Orderings(S) ==
    {r \in [1..Cardinality(S) -> S] : \A i, j \in 1..Cardinality(S) : r[i] = r[j] => i = j}

\* crawlers/crawler.py extract_links: the list `links`, in document order
RECURSIVE LinkList(_, _, _)
LinkList(hrefs, current_url, root_path) ==
    IF hrefs = <<>> THEN <<>>
    ELSE LET url == RStrip(urljoin(current_url, Head(hrefs)), "/")
             rest == LinkList(Tail(hrefs), current_url, root_path)
         IN  IF ~is_internal(url) THEN rest
             ELSE IF ~StartsWith(Path(url), root_path) THEN rest
             ELSE IF Contains(url, "#") THEN rest
             ELSE <<url>> \o rest

\* The functions above, tabulated once over the URLs of the site.
links_of_crawler == [u \in Urls |-> LinkSet(Hrefs(u), u)]

links_in_category ==
    [c \in 1..Len(CATEGORIES) |-> [u \in Urls |-> LinkList(Hrefs(u), u, Path(CATEGORIES[c]))]]

links_of_crawlers == links_in_category[category]

\* an is_product_page that no page passes (a bug the claims must notice)
product_pages_None == {}

product_pages == {u \in Urls : is_product_page(u)}

depth_in_category ==
    [c \in 1..Len(CATEGORIES) |-> [u \in Urls |-> depth_of(u, Path(CATEGORIES[c]))]]

depth == depth_in_category[category]

\* the lists extract_links(html, url) can return, html being the page of url
extract_links(url) ==
    IF script = "crawler" THEN Orderings(links_of_crawler[url])
    ELSE {links_of_crawlers[url]}

(***************************************************************************)
(* scrapper.py: its input and what it extracts from a page.                *)
(***************************************************************************)
\* urls = [row["url"] for row in csv.DictReader(f)]: the rows of data/urls.csv
INPUT_URLS == <<Rose, Swatch, Nude>>

\* the pages for which is_product_page(soup) holds: they have div.l-pdp-content_inner
pdp_pages == {Rose, Nude}

fieldnames ==
    <<"url", "name", "description", "price_sale", "price_original", "discount",
      "breadcrumbs", "rating", "reviews", "images", "ingredients", "variantes">>

\* extract_product(url, soup), as the row DictWriter writes: the pages of the
\* model hold a product name and none of the other elements
extract_product(url) == <<url, get_title(url), "", "", "", "", "", "", "", "", "", "[]">>

(***************************************************************************)
(* State of a run.                                                         *)
(***************************************************************************)
\* lock = threading.Lock(): the value of `lock` while nobody holds it
Unlocked == 0

\* the futures a script can hold at a time: one more than MAX_WORKERS, so that a
\* submission beyond the limit would have a place
Slots == 1..(MAX_WORKERS + 1)

Idle == [pc |-> "idle", url |-> "", result |-> <<>>, claimed |-> FALSE]

\* executor.submit(process, url): the call starts at its first `with lock:`
Submitted(url) == [pc |-> "claim", url |-> url, result |-> <<>>, claimed |-> FALSE]

DepthIdle == d_url = "" /\ d_root = "" /\ d_depth = 0

CleanIdle == cl_pc = "idle" /\ df_name = <<>>

BreadIdle == bc_url = "" /\ bc_out = ""

DownloadIdle ==
    /\ df = <<>>
    /\ dl_pc = "idle" /\ dl_index = 0 /\ dl_image = 0
    /\ local_paths = <<>> /\ updated_paths = <<>> /\ output_file = <<>>

CrawlingIdle ==
    c4_pc = "idle" /\ c4_url = "" /\ c4_page = "" /\ level4_data = <<>> /\ c4_file = <<>>

ToolsIdle == CleanIdle /\ BreadIdle /\ DownloadIdle /\ CrawlingIdle

\* how many times a script is started
MaxRuns == 2

\* no csv file of crawlers/crawler.py exists
NoFiles == [c \in 1..Len(CATEGORIES) |-> <<>>]

\* a setup() that opens data/urls.csv with mode "a" (a bug the claims must notice)
setup_Append(file) == Append(file, <<"url">>)

\* crawler.py setup(): data/urls.csv opened with mode "w", the header written;
\* `file` is what the file held before (<<>>: no file)
setup(file) == << <<"url">> >>

\* crawl_category: `if not os.path.exists(csv_file):` the file is created with its header
ensure_header(file) == IF file = <<>> THEN << <<"url", "name">> >> ELSE file

\* crawler.py: crawl() up to the pool, after setup() and the seeding of the queue
InitCrawler ==
    /\ script = "crawler"
    /\ category = 0
    /\ files = NoFiles
    /\ csv = setup(<<>>)
    /\ queue = START_URLS
    /\ mpc = "submit"

\* crawlers/crawler.py: __main__ at its first category, crawl_category(name, base_url)
\* up to the pool, no csv file existing yet
InitCrawlers ==
    /\ script = "crawlers"
    /\ category = 1
    /\ files = NoFiles
    /\ csv = ensure_header(files[category])
    /\ queue = <<base_url>>
    /\ mpc = "loop"

\* the module globals of a script when its main function starts, the pool idle
Fresh ==
    /\ visited = {} /\ saved = {} /\ level4_urls = {}
    /\ lock = Unlocked
    /\ futures = {}
    /\ task = [s \in Slots |-> Idle]
    /\ handled = {} /\ links = <<>>
    /\ claims = [u \in Urls |-> 0]
    /\ fetches = [u \in Urls |-> 0]
    /\ failed = {} /\ lost = {}
    /\ appended = {queue[i] : i \in 1..Len(queue)}
    /\ run = 1
    /\ DepthIdle /\ ToolsIdle

\* scrapper.py: main() up to the pool: the urls read, the output file new, every
\* url submitted (the pool's work queue holds them)
InitScraper ==
    /\ script = "scraper"
    /\ category = 0
    /\ files = NoFiles
    /\ csv = <<fieldnames>>
    /\ queue = INPUT_URLS
    /\ mpc = "as_completed"

Init ==
    /\ InitCrawler \/ InitCrawlers
    /\ Fresh

(***************************************************************************)
(* The lock.                                                               *)
(***************************************************************************)
\* a threading.Lock with no mutual exclusion (a bug the claims must notice)
CanAcquire_NoExclusion(l) == TRUE

\* lock.acquire() returns only once the lock is unlocked, whoever holds it
CanAcquire(l) == l = Unlocked

\* where a task stands once it is inside the `with lock:` it waited at
Inside(pc) ==
    CASE pc = "claim" -> "visited_check"
      [] pc = "save_url" -> "saved_check"
      [] pc = "target" -> "level4_check"
      [] pc = "save_row" -> "write_row"
      [] pc = "save_product" -> "write_row"

\* `with lock:` entered by a worker: process (claim), save_url, process at
\* TARGET_LEVEL (target), save_row, and process_url of scrapper.py (save_product)
Acquire(t) ==
    /\ task[t].pc \in {"claim", "save_url", "target", "save_row", "save_product"}
    /\ CanAcquire(lock)
    /\ lock' = t
    /\ task' = [task EXCEPT ![t].pc = Inside(@)]
    /\ UNCHANGED <<script, visited, saved, level4_urls, queue, csv, futures, mpc,
                   handled, links, claims, fetches, failed, lost, run, category, files, appended,
                   d_url, d_root, d_depth, toolVars>>

(***************************************************************************)
(* process(url): the claim.                                                *)
(***************************************************************************)
\* a visited check that never finds the URL (a bug the claims must notice)
already_visited_Never(url) == FALSE

\* if url in visited
already_visited(url) == url \in visited

\* `if url in visited: return []`, which leaves the `with` and releases the lock
VisitedCheck(t) ==
    /\ task[t].pc = "visited_check"
    /\ IF already_visited(task[t].url)
       THEN /\ task' = [task EXCEPT ![t].pc = "returned", ![t].result = <<>>]
            /\ lock' = Unlocked
       ELSE /\ task' = [task EXCEPT ![t].pc = "visited_add"]
            /\ lock' = lock
    /\ UNCHANGED <<script, visited, saved, level4_urls, queue, csv, futures, mpc,
                   handled, links, claims, fetches, failed, lost, run, category, files, appended,
                   d_url, d_root, d_depth, toolVars>>

\* where process() goes after the claim: crawler.py fetches; crawlers/crawler.py
\* computes d = depth_of(url, root_path) and branches on it
AfterClaim(url) ==
    IF script = "crawler" THEN "fetch"
    ELSE LET d == depth[url]
         IN  IF d = TARGET_LEVEL THEN "target"
             ELSE IF d < TARGET_LEVEL THEN "fetch"
             ELSE "returned"

\* visited.add(url), the end of the `with lock:`, and the branch that follows
VisitedAdd(t) ==
    /\ task[t].pc = "visited_add"
    /\ visited' = visited \cup {task[t].url}
    /\ lock' = Unlocked
    /\ claims' = [claims EXCEPT ![task[t].url] = @ + 1]
    /\ task' = [task EXCEPT ![t].pc = AfterClaim(task[t].url), ![t].claimed = TRUE]
    /\ UNCHANGED <<script, saved, level4_urls, queue, csv, futures, mpc,
                   handled, links, fetches, failed, lost, run, category, files, appended,
                   d_url, d_root, d_depth, toolVars>>

(***************************************************************************)
(* fetch(url): the page, or None.                                          *)
(***************************************************************************)
\* the outcomes of requests.get: status 200 with the page, or anything else
FetchOutcomes == IF Cardinality(failed) < MaxFetchFailures THEN {"ok", "none"} ELSE {"ok"}

\* where a task goes with the page it fetched
AfterFetch(url) ==
    IF script = "crawler" /\ url \in product_pages THEN "save_url"
    ELSE IF script = "scraper" /\ url \in pdp_pages THEN "save_product"
    ELSE "returned"

\* html = fetch(url) outside the lock: crawler.py lines 193-203,
\* crawlers/crawler.py lines 110-114 (d < TARGET_LEVEL), scrapper.py lines 199-211
Fetch(t) ==
    /\ task[t].pc = "fetch"
    /\ fetches' = [fetches EXCEPT ![task[t].url] = @ + 1]
    /\ \E html \in FetchOutcomes :
          IF html = "none"
          THEN /\ failed' = failed \cup {task[t].url}
               /\ task' = [task EXCEPT ![t].pc = "returned", ![t].result = <<>>]
          ELSE /\ failed' = failed
               /\ IF script # "scraper" /\ AfterFetch(task[t].url) = "returned"
                  THEN \E r \in extract_links(task[t].url) :
                          task' = [task EXCEPT ![t].pc = "returned", ![t].result = r]
                  ELSE task' = [task EXCEPT ![t].pc = AfterFetch(task[t].url)]
    /\ UNCHANGED <<script, visited, saved, level4_urls, queue, lock, csv, futures, mpc,
                   handled, links, claims, lost, run, category, files, appended,
                   d_url, d_root, d_depth, toolVars>>

(***************************************************************************)
(* crawler.py: save_url.  crawlers/crawler.py: the TARGET_LEVEL branch of  *)
(* process, and save_row.                                                  *)
(***************************************************************************)
\* save_url: `if url in saved: return`
SavedCheck(t) ==
    /\ task[t].pc = "saved_check"
    /\ IF task[t].url \in saved
       THEN /\ task' = [task EXCEPT ![t].pc = "returned", ![t].result = <<>>]
            /\ lock' = Unlocked
       ELSE /\ task' = [task EXCEPT ![t].pc = "write_row"]
            /\ lock' = lock
    /\ UNCHANGED <<script, visited, saved, level4_urls, queue, csv, futures, mpc,
                   handled, links, claims, fetches, failed, lost, run, category, files, appended,
                   d_url, d_root, d_depth, toolVars>>

\* process at d == TARGET_LEVEL, inside the lock:
\* `if url not in level4_urls: level4_urls.add(url)`, then the fetch
Level4Check(t) ==
    /\ task[t].pc = "level4_check"
    /\ IF task[t].url \notin level4_urls
       THEN /\ level4_urls' = level4_urls \cup {task[t].url}
            /\ task' = [task EXCEPT ![t].pc = "target_fetch"]
            /\ lock' = lock
       ELSE /\ level4_urls' = level4_urls
            /\ task' = [task EXCEPT ![t].pc = "returned", ![t].result = <<>>]
            /\ lock' = Unlocked
    /\ UNCHANGED <<script, visited, saved, queue, csv, futures, mpc,
                   handled, links, claims, fetches, failed, lost, run, category, files, appended,
                   d_url, d_root, d_depth, toolVars>>

\* html = fetch(url) with the lock held; `if html:` goes on to save_row, whose
\* first statement is `with lock:`; otherwise the `with` ends and process returns []
TargetFetch(t) ==
    /\ task[t].pc = "target_fetch"
    /\ fetches' = [fetches EXCEPT ![task[t].url] = @ + 1]
    /\ \E html \in FetchOutcomes :
          IF html = "none"
          THEN /\ failed' = failed \cup {task[t].url}
               /\ task' = [task EXCEPT ![t].pc = "returned", ![t].result = <<>>]
               /\ lock' = Unlocked
          ELSE /\ failed' = failed
               /\ task' = [task EXCEPT ![t].pc = "save_row"]
               /\ lock' = lock
    /\ UNCHANGED <<script, visited, saved, level4_urls, queue, csv, futures, mpc,
                   handled, links, claims, lost, run, category, files, appended,
                   d_url, d_root, d_depth, toolVars>>

\* the row a script writes for url
Row(url) ==
    IF script = "crawler" THEN <<url>>
    ELSE IF script = "scraper" THEN extract_product(url)
    ELSE <<url, get_title(url)>>

\* the appends of a run that may raise OSError (disk full, file not writable)
MaxWriteFailures == 1

\* the outcomes of open(csv_file, "a") and writerow: the row appended, or OSError
WriteOutcomes == IF Cardinality(lost) < MaxWriteFailures THEN {"ok", "oserror"} ELSE {"ok"}

\* the append to the csv file, inside the lock.
\* save_url: saved.add(url), the row, the end of the `with`, return; an OSError
\* of the append leaves the `with` (the lock is released) and process raises it.
\* save_row: the row, the end of its `with` (the lock is released); process then
\* leaves its own `with lock:` and releases an unlocked lock: RuntimeError.
\* process_url: the row, the end of the `with`, return.
WriteRow(t) ==
    /\ task[t].pc = "write_row"
    /\ lock' = Unlocked
    /\ \E out \in WriteOutcomes :
          /\ csv' = IF out = "ok" THEN Append(csv, Row(task[t].url)) ELSE csv
          /\ lost' = IF out = "ok" THEN lost ELSE lost \cup {task[t].url}
          /\ saved' = IF script = "crawler" THEN saved \cup {task[t].url} ELSE saved
          /\ task' = [task EXCEPT ![t].pc = IF out = "ok" /\ script # "crawlers"
                                              THEN "returned" ELSE "raised",
                                  ![t].result = <<>>]
    /\ UNCHANGED <<script, visited, level4_urls, queue, futures, mpc,
                   handled, links, claims, fetches, failed, run, category, files, appended,
                   d_url, d_root, d_depth, toolVars>>

(***************************************************************************)
(* The main thread: crawl() and crawl_category().                          *)
(***************************************************************************)
Finished(t) == task[t].pc \in {"returned", "raised"}

\* a popleft that leaves the URL in the queue, as queue[0] would (a bug the claims
\* must notice)
after_popleft_Peek(q) == q

\* the queue after queue.popleft()
after_popleft(q) == Tail(q)

\* a test that lets one future too many in (a bug the claims must notice)
has_room_OneTooMany(fs) == Cardinality(fs) <= MAX_WORKERS

\* len(futures) < MAX_WORKERS
has_room(fs) == Cardinality(fs) < MAX_WORKERS

\* crawler.py: `while queue and len(futures) < MAX_WORKERS:`
\*                 futures.add(executor.submit(process, queue.popleft()))
Submit ==
    /\ script = "crawler" /\ mpc = "submit"
    /\ queue # <<>> /\ has_room(futures)
    /\ LET f == CHOOSE s \in Slots \ futures : \A o \in Slots \ futures : s <= o
       IN  /\ futures' = futures \cup {f}
           /\ task' = [task EXCEPT ![f] = Submitted(Head(queue))]
    /\ queue' = after_popleft(queue)
    /\ UNCHANGED <<script, visited, saved, level4_urls, lock, csv, mpc,
                   handled, links, claims, fetches, failed, lost, run, category, files, appended,
                   d_url, d_root, d_depth, toolVars>>

\* crawler.py: the submit loop ends; `done = set()`; as_completed(futures)
AsCompleted ==
    /\ script = "crawler" /\ mpc = "submit"
    /\ ~(queue # <<>> /\ has_room(futures))
    /\ mpc' = "collect"
    /\ handled' = {}
    /\ UNCHANGED <<script, visited, saved, level4_urls, queue, lock, csv, futures, task,
                   links, claims, fetches, failed, lost, run, category, files, appended,
                   d_url, d_root, d_depth, toolVars>>

\* crawlers/crawler.py: `while queue:` batch = queue[:MAX_WORKERS];
\* queue = queue[MAX_WORKERS:]; futures = {executor.submit(...) for url in batch}
SubmitBatch ==
    /\ script = "crawlers" /\ mpc = "loop"
    /\ queue # <<>>
    /\ LET n == IF Len(queue) < MAX_WORKERS THEN Len(queue) ELSE MAX_WORKERS
       IN  /\ futures' = 1..n
           /\ task' = [s \in Slots |-> IF s <= n THEN Submitted(queue[s]) ELSE Idle]
           /\ queue' = SubSeq(queue, n + 1, Len(queue))
    /\ mpc' = "collect"
    /\ handled' = {}
    /\ UNCHANGED <<script, visited, saved, level4_urls, lock, csv,
                   links, claims, fetches, failed, lost, run, category, files, appended,
                   d_url, d_root, d_depth, toolVars>>

\* `for future in as_completed(futures)`: the next completed future;
\* links = future.result(), or the exception it raises, caught by `except`
Result(f) ==
    /\ mpc = "collect"
    /\ f \in futures \ handled
    /\ Finished(f)
    /\ handled' = handled \cup {f}
    /\ links' = task[f].result
    /\ mpc' = IF task[f].result = <<>> THEN "collect" ELSE "links"
    /\ UNCHANGED <<script, visited, saved, level4_urls, queue, lock, csv, futures, task,
                   claims, fetches, failed, lost, run, category, files, appended,
                   d_url, d_root, d_depth, toolVars>>

\* `for l in links: with lock: if l not in visited: queue.append(l)`, one link
Enqueue ==
    /\ mpc = "links"
    /\ CanAcquire(lock)
    /\ queue' = IF Head(links) \notin visited THEN Append(queue, Head(links)) ELSE queue
    /\ appended' = IF Head(links) \notin visited THEN appended \cup {Head(links)} ELSE appended
    /\ links' = Tail(links)
    /\ mpc' = IF Tail(links) = <<>> THEN "collect" ELSE "links"
    /\ UNCHANGED <<script, visited, saved, level4_urls, lock, csv, futures, task,
                   handled, claims, fetches, failed, lost, run, category, files,
                   d_url, d_root, d_depth, toolVars>>

\* futures -= done
Remaining(fs, done) == fs \ done

\* a loop test that forgets the queue (a bug the claims must notice)
queue_or_futures_FuturesOnly(q, fs) == fs # {}

\* `while queue or futures:`
queue_or_futures(q, fs) == q # <<>> \/ fs # {}

\* crawler.py: as_completed is exhausted; `futures -= done`; `while queue or futures`
Retire ==
    /\ script = "crawler" /\ mpc = "collect"
    /\ handled = futures
    /\ futures' = Remaining(futures, handled)
    /\ task' = [s \in Slots |-> IF s \in futures' THEN task[s] ELSE Idle]
    /\ mpc' = IF queue_or_futures(queue, futures') THEN "submit" ELSE "finished"
    /\ UNCHANGED <<script, visited, saved, level4_urls, queue, lock, csv,
                   handled, links, claims, fetches, failed, lost, run, category, files, appended,
                   d_url, d_root, d_depth, toolVars>>

\* crawlers/crawler.py: as_completed is exhausted; back to `while queue:`
EndBatch ==
    /\ script = "crawlers" /\ mpc = "collect"
    /\ handled = futures
    /\ mpc' = IF queue # <<>> THEN "loop" ELSE "finished"
    /\ UNCHANGED <<script, visited, saved, level4_urls, queue, lock, csv, futures, task,
                   handled, links, claims, fetches, failed, lost, run, category, files, appended,
                   d_url, d_root, d_depth, toolVars>>

\* crawlers/crawler.py __main__: crawl_category has returned; the next category:
\* visited.clear(), level4_urls.clear(), crawl_category(name, url) up to its pool
NextCategory ==
    /\ script = "crawlers" /\ mpc = "finished"
    /\ category < Len(CATEGORIES)
    /\ category' = category + 1
    /\ files' = [files EXCEPT ![category] = csv]
    /\ csv' = ensure_header(files[category + 1])
    /\ visited' = {} /\ level4_urls' = {}
    /\ queue' = <<CATEGORIES[category + 1]>>
    /\ appended' = {CATEGORIES[category + 1]}
    /\ futures' = {} /\ task' = [s \in Slots |-> Idle]
    /\ handled' = {} /\ links' = <<>>
    /\ mpc' = "loop"
    /\ claims' = [u \in Urls |-> 0] /\ fetches' = [u \in Urls |-> 0]
    /\ failed' = {} /\ lost' = {}
    /\ UNCHANGED <<script, saved, lock, run, d_url, d_root, d_depth, toolVars>>

\* the script has ended and is started again: the module globals are new, the
\* files are those the run before left.  crawler.py: setup() and the seeds.
\* crawlers/crawler.py: the first category again.
Rerun ==
    /\ mpc = "finished"
    /\ script = "crawler" \/ (script = "crawlers" /\ category = Len(CATEGORIES))
    /\ run < MaxRuns
    /\ run' = run + 1
    /\ IF script = "crawler"
       THEN /\ csv' = setup(csv)
            /\ queue' = START_URLS
            /\ appended' = {START_URLS[i] : i \in 1..Len(START_URLS)}
            /\ mpc' = "submit"
            /\ UNCHANGED <<category, files>>
       ELSE /\ category' = 1
            /\ files' = [files EXCEPT ![category] = csv]
            /\ csv' = ensure_header(files[1])
            /\ queue' = <<CATEGORIES[1]>>
            /\ appended' = {CATEGORIES[1]}
            /\ mpc' = "loop"
    /\ visited' = {} /\ saved' = {} /\ level4_urls' = {}
    /\ lock' = Unlocked
    /\ futures' = {} /\ task' = [s \in Slots |-> Idle]
    /\ handled' = {} /\ links' = <<>>
    /\ claims' = [u \in Urls |-> 0] /\ fetches' = [u \in Urls |-> 0]
    /\ failed' = {} /\ lost' = {}
    /\ UNCHANGED <<script, d_url, d_root, d_depth, toolVars>>

Next ==
    \/ \E t \in Slots : Acquire(t)
    \/ \E t \in Slots : VisitedCheck(t)
    \/ \E t \in Slots : VisitedAdd(t)
    \/ \E t \in Slots : Fetch(t)
    \/ \E t \in Slots : SavedCheck(t)
    \/ \E t \in Slots : Level4Check(t)
    \/ \E t \in Slots : TargetFetch(t)
    \/ \E t \in Slots : WriteRow(t)
    \/ Submit
    \/ AsCompleted
    \/ SubmitBatch
    \/ \E f \in Slots : Result(f)
    \/ Enqueue
    \/ Retire
    \/ EndBatch
    \/ NextCategory
    \/ Rerun

Spec == Init /\ [][Next]_vars

(***************************************************************************)
(* scrapper.py: the pool's threads and main().                             *)
(***************************************************************************)
\* a thread of the pool takes the next submitted process_url(url, ...) call
Work(t) ==
    /\ script = "scraper"
    /\ t <= MAX_WORKERS
    /\ task[t].pc = "idle" \/ Finished(t)
    /\ queue # <<>>
    /\ task' = [task EXCEPT ![t] = [pc |-> "fetch", url |-> Head(queue),
                                    result |-> <<>>, claimed |-> FALSE]]
    /\ queue' = Tail(queue)
    /\ futures' = futures \cup {t}
    /\ UNCHANGED <<script, visited, saved, level4_urls, lock, csv, mpc,
                   handled, links, claims, fetches, failed, lost, run, category, files, appended,
                   d_url, d_root, d_depth, toolVars>>

\* `for _ in as_completed(futures): pass` ends: every call has returned or raised
Completed ==
    /\ script = "scraper" /\ mpc = "as_completed"
    /\ queue = <<>>
    /\ \A t \in Slots : task[t].pc = "idle" \/ Finished(t)
    /\ mpc' = "finished"
    /\ UNCHANGED <<script, visited, saved, level4_urls, queue, lock, csv, futures, task,
                   handled, links, claims, fetches, failed, lost, run, category, files, appended,
                   d_url, d_root, d_depth, toolVars>>

InitAll ==
    /\ InitCrawler \/ InitCrawlers \/ InitScraper
    /\ Fresh

NextAll ==
    \/ Next
    \/ \E t \in Slots : Work(t)
    \/ Completed

\* the three scripts that append rows to a csv file from a pool of threads
SpecAll == InitAll /\ [][NextAll]_vars

\* some thread runs whenever one can: the scheduler starves no runnable thread forever
FairSpec == Spec /\ WF_vars(Next)

(***************************************************************************)
(* Claims about the crawls.                                                *)
(***************************************************************************)
\* the urls of the data rows of the csv file, in file order
RowUrls == [i \in 1..(Len(csv) - 1) |-> csv[i + 1][1]]

HasRow(url) == \E i \in 1..Len(RowUrls) : RowUrls[i] = url

\* C1: of the process(u) tasks of one URL u, one passes the locked check-and-add;
\* the others return [] without fetching: u is claimed once and fetched at most
\* once, and only by the task that claimed it.
C1_ClaimedOnce ==
    /\ \A u \in Urls : claims[u] <= 1 /\ fetches[u] <= claims[u]
    /\ \A t \in Slots :
          /\ (Finished(t) /\ ~task[t].claimed) =>
                (task[t].pc = "returned" /\ task[t].result = <<>>)
          /\ Finished(t) => (claims[task[t].url] = 1 /\ task[t].url \in visited)
          /\ task[t].pc \in {"fetch", "target_fetch"} => task[t].claimed

\* two tasks of one URL in the pool together: one claimed it, the other returned []
C1_Witness ==
    \E t1, t2 \in futures :
        /\ t1 # t2 /\ task[t1].url = task[t2].url
        /\ task[t1].claimed /\ task[t1].pc \in {"fetch", "target"}
        /\ task[t2].pc = "returned" /\ ~task[t2].claimed

\* C2: the csv file never holds two data rows with the same url.
C2_NoDuplicateRows ==
    \A i, j \in 1..Len(RowUrls) : RowUrls[i] = RowUrls[j] => i = j

\* a URL with a row that was queued and submitted again, and rejected by the claim
C2_Witness ==
    \E t \in futures :
        /\ HasRow(task[t].url)
        /\ task[t].pc = "returned" /\ ~task[t].claimed

\* C3: crawl_category() completes: no process() task hangs, and the `while queue`
\* loop exits.  Stated as: a run that has not finished can take a step.
C3_CrawlCategoryCompletes ==
    script = "crawlers" => (mpc = "finished" \/ ENABLED Next)

\* C4: crawl() of crawler.py leaves its main loop, the queue empty and no future
\* pending, whatever the links (cycles, self-links) among the pages.
C4_CrawlTerminates ==
    script = "crawler" => <>(mpc = "finished" /\ queue = <<>> /\ futures = {})

\* crawl() has finished after visiting the pages of a link cycle (Teint links to
\* itself and to Blush, Blush links back to Teint)
C4_Witness ==
    /\ script = "crawler" /\ mpc = "finished" /\ queue = <<>> /\ futures = {}
    /\ {Teint, Blush} \subseteq visited

\* the links a claimed page contributes: none for a page the script does not parse
Successors(url) ==
    IF script = "crawler"
    THEN IF is_product_page(url) THEN {} ELSE LinkSet(Hrefs(url), url)
    ELSE IF depth_of(url, root_path_of_run) < TARGET_LEVEL
         THEN LET l == LinkList(Hrefs(url), url, root_path_of_run)
              IN  {l[i] : i \in 1..Len(l)}
         ELSE {}

RECURSIVE Closure(_)
Closure(S) ==
    LET N == S \cup UNION {Successors(u) : u \in S}
    IN  IF N = S THEN S ELSE Closure(N)

\* the pages reachable from the seeds of the script that runs
Reachable ==
    Closure(IF script = "crawler" THEN {START_URLS[i] : i \in 1..Len(START_URLS)}
            ELSE {base_url})

\* the reachable pages a script records
Targets ==
    {u \in Reachable : IF script = "crawler" THEN is_product_page(u)
                       ELSE depth_of(u, root_path_of_run) = TARGET_LEVEL}

\* the reachable pages a script claims but does not fetch
Rejected ==
    {u \in Reachable : script = "crawlers" /\ depth_of(u, root_path_of_run) > TARGET_LEVEL}

\* a run is over when it has finished or when no thread can take a step
RunOver == mpc = "finished" \/ ~ENABLED Next

\* C5: when every fetch succeeds (and every append to the file), a run ends, under
\* every interleaving, with the same visited set and the same rows: each reachable
\* page fetched exactly once, each reachable target page with exactly one row.
C5_SameFinalResult ==
    (RunOver /\ failed = {} /\ lost = {}) =>
        /\ visited = Reachable
        /\ \A u \in Reachable : fetches[u] = IF u \in Rejected THEN 0 ELSE 1
        /\ {RowUrls[i] : i \in 1..Len(RowUrls)} = Targets
        /\ Len(RowUrls) = Cardinality(Targets)

\* C6: in crawlers/crawler.py a claimed URL of depth d is, once its process() call
\* is over: d < 4, fetched, its extracted links returned; d = 4, fetched and
\* recorded, no links returned; d > 4, never fetched, nothing recorded.
C6_ClassifiedByDepth ==
    script = "crawlers" =>
        \A t \in futures :
            LET u == task[t].url
                d == depth_of(u, root_path_of_run)
            IN  (task[t].claimed /\ (Finished(t) \/ ~ENABLED Next)) =>
                    /\ d < TARGET_LEVEL =>
                          /\ fetches[u] = 1
                          /\ u \notin failed =>
                                task[t].result = LinkList(Hrefs(u), u, root_path_of_run)
                    /\ d = TARGET_LEVEL =>
                          /\ fetches[u] = 1
                          /\ task[t].result = <<>>
                          /\ u \notin failed => HasRow(u)
                    /\ d > TARGET_LEVEL =>
                          /\ fetches[u] = 0 /\ task[t].result = <<>> /\ ~HasRow(u)

\* host belongs to the configured domain: the domain itself or a subdomain of it
BelongsToDomain(host) == host = SITE_DOMAIN \/ EndsWith(host, "." \o SITE_DOMAIN)

\* C8: every URL in the queue and every URL fetched has a host that belongs to the
\* configured domain and a path under an allowed prefix (root_path for
\* crawlers/crawler.py).
C8_OnlyDomainUrlsQueued ==
    LET ok(u) ==
            /\ BelongsToDomain(Netloc(u))
            /\ IF script = "crawler" THEN is_allowed_path(u)
               ELSE StartsWith(Path(u), root_path_of_run)
    IN  /\ \A i \in 1..Len(queue) : ok(queue[i])
        /\ \A u \in Urls : fetches[u] > 0 => ok(u)

\* C9: when the fetch of a URL fails, its task returns [] without raising, and
\* the run still completes with every queued URL claimed.
C9_FailureIsolated ==
    failed # {} =>
        /\ \A t \in futures :
              (task[t].url \in failed /\ Finished(t)) =>
                  (task[t].pc = "returned" /\ task[t].result = <<>>)
        /\ mpc = "finished" \/ ENABLED Next
        /\ mpc = "finished" => (queue = <<>> /\ \A t \in futures : Finished(t))

\* C10: a URL whose fetch failed is not fetched again and gets no row.
C10_FailedUrlDropped ==
    \A u \in failed : fetches[u] = 1 /\ ~HasRow(u)

\* a URL whose fetch failed was found again, queued again and rejected by the claim
C10_Witness ==
    \E t \in futures :
        /\ task[t].url \in failed
        /\ task[t].pc = "returned" /\ ~task[t].claimed

(***************************************************************************)
(* Claims about normalisation, the sink and the dedup state.               *)
(***************************************************************************)
\* the normal form of a resolved link: fragment removed, trailing slashes stripped
NormalForm(raw) == RStrip(BeforeHash(raw), "/")

Normalized(url) == NormalForm(url) = url

Elements(seq) == {seq[i] : i \in 1..Len(seq)}

\* the pages whose links a script extracts once their fetch has succeeded
Parsed(url) ==
    IF script = "crawler" THEN url \notin product_pages ELSE depth[url] < TARGET_LEVEL

\* C11: every URL in the queue or in the visited set, seeds included, is in normal
\* form (no fragment, no trailing slash), and a link whose href is u plus a
\* fragment or a trailing slash is returned for the queue as u.
C11_UrlsNormalized ==
    /\ \A u \in Elements(queue) \cup visited : Normalized(u)
    /\ \A t \in futures :
          LET p == task[t].url
          IN  (task[t].pc = "returned" /\ task[t].claimed /\ p \notin failed /\ Parsed(p)) =>
                  \A i \in 1..Len(Hrefs(p)) :
                      LET u == NormalForm(urljoin(p, Hrefs(p)[i]))
                      IN  (is_internal(u) /\ (IF script = "crawler" THEN is_allowed_path(u)
                                              ELSE StartsWith(Path(u), root_path_of_run)))
                              => u \in Elements(task[t].result)

\* C12: when the append of a record to the output file fails with an I/O error, the
\* run is aborted: it does not go on to its normal completion with the record lost.
C12_WriteErrorAborts ==
    lost # {} => mpc # "finished"

\* C13: at any instant at most one worker thread is inside the open-append-write
\* section of save_url, save_row or process_url.
C13_OneWriterAtATime ==
    Cardinality({t \in Slots : task[t].pc = "write_row"}) <= 1

\* one thread is inside the write section while another waits at its `with lock:`
C13_Witness ==
    \E t1, t2 \in Slots :
        /\ task[t1].pc = "write_row"
        /\ task[t2].pc \in {"save_url", "save_product"}

\* the roots of the crawl that runs: its seeds
Seeds == IF script = "crawler" THEN Elements(START_URLS) ELSE {base_url}

\* the set that guards the output file
Emitted == IF script = "crawler" THEN saved ELSE level4_urls

\* C14: dedup state is per root: the crawl of a root starts, with the claim of its
\* seed, on an empty visited set and an empty emitted set, so that what another
\* root's crawl claimed or emitted cannot stand in the way of its own claims.
C14_DedupStatePerRoot ==
    \A t \in futures :
        (task[t].pc = "visited_add" /\ task[t].url \in Seeds) =>
            (visited = {} /\ Emitted = {})

\* the csv files on disk: the one being written and those of the other categories
FilesOnDisk == {csv} \cup {files[c] : c \in {k \in 1..Len(CATEGORIES) : files[k] # <<>>}}

Header == IF script = "crawler" THEN <<"url">> ELSE <<"url", "name">>

\* C15: after any number of consecutive runs, each output file holds exactly one
\* header row, followed by data rows no two of which have the same url.
C15_OneHeaderNoDuplicateAcrossRuns ==
    \A f \in FilesOnDisk :
        /\ Len(f) >= 1 /\ f[1] = Header
        /\ \A i \in 2..Len(f) : f[i] # Header
        /\ \A i, j \in 2..Len(f) : f[i][1] = f[j][1] => i = j

\* a later run has ended with rows in the file
C15_Witness ==
    run > 1 /\ mpc = "finished" /\ Len(csv) > 1

\* the process() calls submitted and not yet completed
InFlight == {t \in futures : ~Finished(t)}

\* C16: at every point of a crawl at most MAX_WORKERS process() tasks are submitted
\* and not yet completed.
C16_InFlightBounded ==
    Cardinality(InFlight) <= MAX_WORKERS

\* the pool is full while URLs wait in the queue
C16_Witness ==
    Cardinality(InFlight) = MAX_WORKERS /\ queue # <<>>

\* C20: no worker is at its HTTP fetch (the delay and the request) while it holds
\* the lock that guards visited and the emitted set.
C20_NoFetchUnderLock ==
    \A t \in Slots : task[t].pc \in {"fetch", "target_fetch"} => lock # t

(***************************************************************************)
(* Claims about the emitted set, the queue and the scheduling.             *)
(***************************************************************************)
\* C21: at the end of a run the set of URLs recorded as emitted (saved in
\* crawler.py, level4_urls in crawlers/crawler.py), whose size the summary prints
\* as the number of saved records, is the set of URLs that have a row in the
\* output file, and each of them was fetched with success.
C21_EmittedIsWritten ==
    mpc = "finished" =>
        /\ Emitted = Elements(RowUrls)
        /\ \A u \in Emitted : fetches[u] = 1 /\ u \notin failed

\* C22: in crawlers/crawler.py a URL whose depth exceeds TARGET_LEVEL is never in
\* the queue: of the links extracted from a page of depth below TARGET_LEVEL only
\* those of depth at most TARGET_LEVEL are appended.
C22_NoDeepUrlQueued ==
    script = "crawlers" => \A u \in Elements(queue) : depth[u] <= TARGET_LEVEL

\* C23: when a crawl reports completion the queue is empty, no task is in flight,
\* and every URL that was ever put in the queue has been claimed (is in visited):
\* no pending URL is dropped unprocessed.
C23_NothingPendingAtCompletion ==
    mpc = "finished" =>
        /\ queue = <<>>
        /\ \A t \in Slots : task[t].pc = "idle" \/ Finished(t)
        /\ appended \subseteq visited

\* a crawl has reported completion after links were appended to the queue
C23_Witness ==
    mpc = "finished" /\ appended \ Seeds # {}

\* the main thread is blocked in as_completed: futures remain, none of them done
WaitingForTasks ==
    /\ mpc = "collect"
    /\ futures # handled
    /\ \A f \in futures \ handled : ~Finished(f)

\* C24: the scheduler submits a task whenever the queue holds a URL and fewer than
\* MAX_WORKERS tasks run: the main thread is never blocked waiting for the running
\* tasks while the queue holds a URL and a worker is free; and a URL whose claim
\* fails is discarded at submission: no task of the pool is spent on it.
C24_SubmitsWheneverRoom ==
    /\ ~(WaitingForTasks /\ queue # <<>> /\ Cardinality(InFlight) < MAX_WORKERS)
    /\ \A t \in futures : ~(task[t].pc = "returned" /\ ~task[t].claimed)

\* the pages of the site that are not product pages and whose fetch succeeded
FetchedListings ==
    {p \in Urls : ~is_product_page(p) /\ fetches[p] >= 1 /\ p \notin failed}

\* C25: in crawler.py only product pages are saved and product pages are leaves:
\* every URL with a row in data/urls.csv ends with '.html', lies under an allowed
\* path and was fetched with status 200; process() of a product page returns no
\* links; and every URL put in the queue is a seed or a link of a fetched page
\* that is not a product page.
C25_ProductPagesAreLeaves ==
    script = "crawler" =>
        /\ \A i \in 1..Len(RowUrls) :
              LET u == RowUrls[i]
              IN  /\ EndsWith(u, ".html") /\ is_allowed_path(u)
                  /\ fetches[u] >= 1 /\ u \notin failed
        /\ \A t \in futures :
              (Finished(t) /\ is_product_page(task[t].url)) => task[t].result = <<>>
        /\ \A u \in appended :
              u \in Seeds \/ \E p \in FetchedListings : u \in links_of_crawler[p]

\* crawl() has finished: the product page blush-rose.html has its row, and
\* blush-nude.html, which only that product page links to, was never queued
C25_Witness ==
    /\ script = "crawler" /\ mpc = "finished"
    /\ HasRow(Rose)
    /\ Nude \notin appended

\* C27: completeness of crawler.py: if every fetch succeeds, then when crawl()
\* finishes every product page that is reachable from a seed through links over
\* internal, allowed pages that are not product pages is in saved and has a row
\* in data/urls.csv, under every interleaving of the workers.
C27_EveryReachableProductSaved ==
    (script = "crawler" /\ mpc = "finished" /\ failed = {}) =>
        \A u \in Targets : u \in saved /\ HasRow(u)

(***************************************************************************)
(* depth_of as a pure function: inputs drawn from bounded sets.            *)
(***************************************************************************)
MaxTail == 5

Alphabet == {"/", "a", "b", "x"}

RECURSIVE Strings(_)
Strings(n) ==
    IF n = 0 THEN {""}
    ELSE LET S == Strings(n - 1) IN S \cup {s \o c : s \in S, c \in Alphabet}

RootPaths == {"/a/", "/a/b/"}

\* the number of non-empty path segments of url that lie below root_path
SegmentsBelow(url, root_path) == NonEmptyParts(From(Path(url), Len(root_path) + 1))

CrawlIdle ==
    /\ script = ""
    /\ visited = {} /\ saved = {} /\ level4_urls = {}
    /\ queue = <<>> /\ lock = Unlocked /\ csv = <<>>
    /\ futures = {} /\ task = <<>>
    /\ mpc = "idle" /\ handled = {} /\ links = <<>>
    /\ claims = <<>> /\ fetches = <<>> /\ failed = {} /\ lost = {} /\ appended = {}
    /\ run = 0 /\ category = 0 /\ files = <<>>

InitDepth ==
    /\ CrawlIdle /\ ToolsIdle
    /\ d_root \in RootPaths
    /\ d_url \in {"https://site.test" \o d_root \o t : t \in Strings(MaxTail)}
    /\ d_depth = 0

CallDepthOf ==
    /\ d_depth = 0
    /\ d_depth' = depth_of(d_url, d_root)
    /\ UNCHANGED <<d_url, d_root>>
    /\ UNCHANGED <<crawlVars, toolVars>>

NextDepth == CallDepthOf

SpecDepth == InitDepth /\ [][NextDepth]_vars

\* C7: depth_of(url, root_path) is 1 plus the number of non-empty path segments
\* of url below root_path, for every URL whose path starts with root_path.
C7_DepthIsSegmentsBelowRoot ==
    (d_depth # 0 /\ StartsWith(Path(d_url), d_root))
        => d_depth = 1 + SegmentsBelow(d_url, d_root)

\* the two examples of the specification: the root has depth 1, root + x/x has depth 3
C7_SpecExamples ==
    d_depth # 0 =>
        /\ (Path(d_url) = d_root => d_depth = 1)
        /\ (d_root = "/a/b/" /\ Path(d_url) = "/a/b/x/x" => d_depth = 3)

(***************************************************************************)
(* cleaner.py: the name column of the data frame through the steps of      *)
(* __main__ that change it or the rows: drop_duplicates (step 2),          *)
(* clean_text (step 4) and to_csv (step 12).  The other steps change other *)
(* columns and neither add nor remove rows.                                *)
(***************************************************************************)
\* an empty field of the csv file: pd.read_csv reads it as NaN
NaN == ""

\* the position of character c in s, 0 if it does not occur
IndexOf(c, s) == IF Contains(s, c) THEN Find(s, 1, {c}) ELSE 0

UPPERCASE == "ABCDEFGHIJKLMNOPQRSTUVWXYZÉÈ"

LOWERCASE == "abcdefghijklmnopqrstuvwxyzéè"

\* str.lower(), over the letters of the model
RECURSIVE Lower(_)
Lower(s) ==
    IF s = "" THEN ""
    ELSE LET c == Char(s, 1)
             i == IndexOf(c, UPPERCASE)
         IN  (IF i = 0 THEN c ELSE Char(LOWERCASE, i)) \o Lower(From(s, 2))

ACCENTED == "éèÉÈ"

UNACCENTED == "eeEE"

\* remove_accents: NFD decomposition, then the marks (category Mn) dropped
RECURSIVE remove_accents(_)
remove_accents(text) ==
    IF text = NaN THEN text
    ELSE LET c == Char(text, 1)
             i == IndexOf(c, ACCENTED)
         IN  (IF i = 0 THEN c ELSE Char(UNACCENTED, i)) \o remove_accents(From(text, 2))

\* str.strip(): the white space at both ends removed
RECURSIVE Strip(_)
Strip(s) ==
    IF s = "" THEN ""
    ELSE IF Char(s, 1) = " " THEN Strip(From(s, 2))
    ELSE IF Char(s, Len(s)) = " " THEN Strip(SubSeq(s, 1, Len(s) - 1))
    ELSE s

clean_text(text) ==
    IF text = NaN THEN text
    ELSE remove_accents(Lower(Strip(text)))

\* df.drop_duplicates(subset=['name'], keep='first'): a row stays when no earlier
\* row has its name (NaN counts as equal to NaN)
RECURSIVE drop_duplicates(_)
drop_duplicates(names) ==
    IF names = <<>> THEN <<>>
    ELSE LET n == Len(names)
             before == drop_duplicates(SubSeq(names, 1, n - 1))
         IN  IF \E i \in 1..Len(before) : before[i] = names[n] THEN before
             ELSE Append(before, names[n])

\* the rows of data/produits_local.csv
MaxRows == 3

\* the names the rows of the input can have
InputNames == {"Rose", "rose", "Rosé", " Rose", "Nude", NaN}

InitClean ==
    /\ CrawlIdle /\ DepthIdle /\ BreadIdle /\ DownloadIdle /\ CrawlingIdle
    /\ cl_pc = "read"
    /\ df_name \in UNION {[1..n -> InputNames] : n \in 0..MaxRows}

\* step 2: df = df.drop_duplicates(subset=['name'], keep='first')
DropDuplicates ==
    /\ cl_pc = "read"
    /\ df_name' = drop_duplicates(df_name)
    /\ cl_pc' = "deduped"
    /\ UNCHANGED <<crawlVars, crawlingVars, depthVars, breadVars, downloadVars>>

\* step 4: df['name'] = df['name'].apply(clean_text)
CleanNames ==
    /\ cl_pc = "deduped"
    /\ df_name' = [i \in 1..Len(df_name) |-> clean_text(df_name[i])]
    /\ cl_pc' = "cleaned"
    /\ UNCHANGED <<crawlVars, crawlingVars, depthVars, breadVars, downloadVars>>

\* step 12: df.to_csv(OUTPUT_CSV, ...)
ToCsv ==
    /\ cl_pc = "cleaned"
    /\ cl_pc' = "saved"
    /\ UNCHANGED <<df_name, crawlVars, crawlingVars, depthVars, breadVars, downloadVars>>

NextClean == DropDuplicates \/ CleanNames \/ ToCsv

SpecClean == InitClean /\ [][NextClean]_vars

\* C17: the cleaned product file holds no two rows with the same name.
C17_NoDuplicateNames ==
    cl_pc = "saved" =>
        \A i, j \in 1..Len(df_name) : df_name[i] = df_name[j] => i = j

(***************************************************************************)
(* cleaner.py: extract_breadcrumbs_from_url as a pure function.            *)
(***************************************************************************)
\* s.split(sep), sep one character: the parts in order, the empty ones included
RECURSIVE Split(_, _)
Split(s, sep) ==
    LET e == Find(s, 1, {sep})
    IN  IF e > Len(s) THEN <<s>>
        ELSE <<SubSeq(s, 1, e - 1)>> \o Split(From(s, e + 1), sep)

\* the %XX escapes of the model and the characters they stand for
ESCAPES == <<"%20", "%2D">>

ESCAPED == <<" ", "-">>

\* urllib.parse.unquote, over the escapes of the model
RECURSIVE unquote(_)
unquote(s) ==
    IF s = "" THEN ""
    ELSE IF \E k \in 1..Len(ESCAPES) : StartsWith(s, ESCAPES[k])
         THEN LET k == CHOOSE k \in 1..Len(ESCAPES) : StartsWith(s, ESCAPES[k])
              IN  ESCAPED[k] \o unquote(From(s, Len(ESCAPES[k]) + 1))
         ELSE Char(s, 1) \o unquote(From(s, 2))

\* s.replace(a, b) for one-character a and b
RECURSIVE ReplaceChar(_, _, _)
ReplaceChar(s, a, b) ==
    IF s = "" THEN ""
    ELSE (IF Char(s, 1) = a THEN b ELSE Char(s, 1)) \o ReplaceChar(From(s, 2), a, b)

IsCased(c) == IndexOf(c, UPPERCASE) # 0 \/ IndexOf(c, LOWERCASE) # 0

\* c.upper() for one character
UpperChar(c) == LET i == IndexOf(c, LOWERCASE) IN IF i = 0 THEN c ELSE Char(UPPERCASE, i)

\* str.title(): a cased character is upper-cased after an uncased one (or at the
\* start) and lower-cased after a cased one
RECURSIVE TitleFrom(_, _)
TitleFrom(s, after_cased) ==
    IF s = "" THEN ""
    ELSE LET c == Char(s, 1)
         IN  (IF ~IsCased(c) THEN c ELSE IF after_cased THEN Lower(c) ELSE UpperChar(c))
                 \o TitleFrom(From(s, 2), IsCased(c))

Title(s) == TitleFrom(s, FALSE)

\* formatted = decoded.replace('-', ' ').title()
Formatted(part) == Title(ReplaceChar(unquote(part), "-", " "))

\* ' > '.join(parts)
RECURSIVE Join(_)
Join(parts) ==
    IF parts = <<>> THEN ""
    ELSE IF Len(parts) = 1 THEN parts[1]
    ELSE parts[1] \o " > " \o Join(Tail(parts))

\* the loop over parts: the formatted parts that are not empty, do not end in
\* .html and are neither 'intl' nor 'fr'
RECURSIVE breadcrumb_parts(_)
breadcrumb_parts(parts) ==
    IF parts = <<>> THEN <<>>
    ELSE LET part == Head(parts)
             rest == breadcrumb_parts(Tail(parts))
         IN  IF part # "" /\ ~EndsWith(part, ".html") /\ part # "intl" /\ part # "fr"
             THEN <<Formatted(part)>> \o rest
             ELSE rest

\* the None the function returns
None == NaN

extract_breadcrumbs_from_url(url) ==
    LET found == breadcrumb_parts(Split(Path(url), "/"))
    IN  IF Len(found) > 1 THEN Join(SubSeq(found, 1, Len(found) - 1)) ELSE None

\* how many path segments follow /intl/fr in the URLs tried
MaxSegments == 4

PathSegments == {"maquillage", "teint", "blush", "blush-rose", "blush-rose.html", "2in1%20set"}

RECURSIVE PathsOf(_)
PathsOf(n) ==
    IF n = 0 THEN {""}
    ELSE LET P == PathsOf(n - 1) IN P \cup {q \o "/" \o g : q \in P, g \in PathSegments}

\* bc_out before the call
NotCalled == "?"

InitBread ==
    /\ CrawlIdle /\ DepthIdle /\ CleanIdle /\ DownloadIdle /\ CrawlingIdle
    /\ bc_url \in {Origin \o "/intl/fr" \o q : q \in PathsOf(MaxSegments)}
    /\ bc_out = NotCalled

CallBreadcrumbs ==
    /\ bc_out = NotCalled
    /\ bc_out' = extract_breadcrumbs_from_url(bc_url)
    /\ UNCHANGED <<bc_url, crawlVars, crawlingVars, depthVars, cleanVars, downloadVars>>

NextBread == CallBreadcrumbs

SpecBread == InitBread /\ [][NextBread]_vars

\* the non-empty segments of the path other than 'intl' and 'fr'
RECURSIVE SegmentsOf(_)
SegmentsOf(parts) ==
    IF parts = <<>> THEN <<>>
    ELSE LET rest == SegmentsOf(Tail(parts))
         IN  IF Head(parts) \notin {"", "intl", "fr"} THEN <<Head(parts)>> \o rest ELSE rest

\* the category segments: those segments but the last, the product's own
CategorySegments(url) ==
    LET segs == SegmentsOf(Split(Path(url), "/"))
    IN  SubSeq(segs, 1, Len(segs) - 1)

\* C18: for a URL with category segments and a product segment,
\* extract_breadcrumbs_from_url returns the category segments (every non-empty
\* segment other than 'intl', 'fr' and the product's own), each title-cased with
\* hyphens turned into spaces, joined by ' > ', whether or not the product
\* segment ends in .html.
C18_BreadcrumbsAreCategories ==
    (bc_out # NotCalled /\ Len(CategorySegments(bc_url)) >= 1) =>
        LET cats == CategorySegments(bc_url)
        IN  bc_out = Join([i \in 1..Len(cats) |-> Formatted(cats[i])])

\* the example of the claim without .html, which the function gets right
C18_DocstringExample ==
    (bc_out # NotCalled /\ bc_url = Origin \o "/intl/fr/maquillage/teint/blush/blush-rose")
        => bc_out = "Maquillage > Teint > Blush"

(***************************************************************************)
(* donwload_image.py: the download loop and the progressive save.          *)
(***************************************************************************)
\* the characters clean_name keeps: [a-zA-Z0-9_-]
KEPT == "abcdefghijklmnopqrstuvwxyzABCDEFGHIJKLMNOPQRSTUVWXYZ0123456789_-"

\* re.sub(r'[^a-zA-Z0-9_-]', '_', name)
RECURSIVE clean_name(_)
clean_name(name) ==
    IF name = "" THEN ""
    ELSE (IF Contains(KEPT, Char(name, 1)) THEN Char(name, 1) ELSE "_")
             \o clean_name(From(name, 2))

\* str(value) of a cell: a missing cell reads as nan
Str(value) == IF value = NaN THEN "nan" ELSE value

\* parts[-1]
Last(parts) == parts[Len(parts)]

\* ext = url.split("?")[0].split(".")[-1].split("#")[0]
Ext(url) == Split(Last(Split(Split(url, "?")[1], ".")), "#")[1]

\* "|".join(paths)
RECURSIVE JoinPaths(_)
JoinPaths(paths) ==
    IF paths = <<>> THEN ""
    ELSE IF Len(paths) = 1 THEN paths[1]
    ELSE paths[1] \o "|" \o JoinPaths(Tail(paths))

\* urls = str(row[image_col]).split("|")
UrlsOf(row) == Split(Str(row.images), "|")

\* product_name = clean_name(str(row['name']))
ProductName(row) == clean_name(Str(row.name))

\* product_folder = os.path.join("data/images", f"{product_name}_{index}")
ProductFolder(row, index) == "data/images/" \o ProductName(row) \o "_" \o ToString(index)

\* filename = os.path.join(product_folder, f"{product_name}_{i}.{ext}")
Filename(row, index, i, url) ==
    ProductFolder(row, index) \o "/" \o ProductName(row) \o "_" \o ToString(i)
        \o "." \o Ext(url)

\* requests.get(url) raises for a url without a scheme (str(nan) is one)
HasScheme(url) == StartsWith(url, "http://") \/ StartsWith(url, "https://")

\* how many rows data/produits.csv holds
MaxProducts == 2

Cdn == "https://cdn.revolutionbeauty.com"

\* the rows data/produits.csv is made of
InputRows ==
    { [name |-> "Blush Rose!", images |-> Cdn \o "/a.jpg|" \o Cdn \o "/b.png?v=1"],
      [name |-> "Nude",        images |-> Cdn \o "/c.jpg#zoom"],
      [name |-> "Swatch",      images |-> NaN] }

InitDownload ==
    /\ CrawlIdle /\ DepthIdle /\ CleanIdle /\ BreadIdle /\ CrawlingIdle
    /\ df \in UNION {[1..n -> InputRows] : n \in 1..MaxProducts}
    /\ dl_pc = "loop" /\ dl_index = 0 /\ dl_image = 0
    /\ local_paths = <<>> /\ updated_paths = <<>>
    /\ output_file = <<>>

\* the row of df the loop stands at (index counts from 0)
CurrentRow == df[dl_index + 1]

\* lines 73-85: the next row of df.iterrows()
StartProduct ==
    /\ dl_pc = "loop" /\ dl_index < Len(df)
    /\ local_paths' = <<>>
    /\ dl_image' = 1
    /\ dl_pc' = "images"
    /\ UNCHANGED <<df, dl_index, updated_paths, output_file>>
    /\ UNCHANGED <<crawlVars, crawlingVars, depthVars, cleanVars, breadVars>>

\* lines 88-116: one url of the row: skipped when blank, appended to
\* local_paths when requests.get answers 200, left out when it fails
DownloadImage ==
    /\ dl_pc = "images" /\ dl_image <= Len(UrlsOf(CurrentRow))
    /\ LET url == UrlsOf(CurrentRow)[dl_image]
       IN  \E ok \in BOOLEAN :
               local_paths' =
                   IF Strip(url) # "" /\ HasScheme(url) /\ ok
                   THEN Append(local_paths, Filename(CurrentRow, dl_index, dl_image, url))
                   ELSE local_paths
    /\ dl_image' = dl_image + 1
    /\ UNCHANGED <<df, dl_pc, dl_index, updated_paths, output_file>>
    /\ UNCHANGED <<crawlVars, crawlingVars, depthVars, cleanVars, breadVars>>

\* line 119: updated_paths.append("|".join(local_paths))
EndProduct ==
    /\ dl_pc = "images" /\ dl_image > Len(UrlsOf(CurrentRow))
    /\ updated_paths' = Append(updated_paths, JoinPaths(local_paths))
    /\ dl_pc' = "to_csv"
    /\ UNCHANGED <<df, dl_index, dl_image, local_paths, output_file>>
    /\ UNCHANGED <<crawlVars, crawlingVars, depthVars, cleanVars, breadVars>>

\* df_temp = df.copy(); df_temp.loc[:index, image_col] = updated_paths
\* (a label slice, index included)
df_temp == [k \in 1..Len(df) |->
               IF k <= dl_index + 1 THEN updated_paths[k] ELSE df[k].images]

\* line 127, first half: to_csv opens output_file for writing, which empties it
OpenOutput ==
    /\ dl_pc = "to_csv"
    /\ output_file' = <<>>
    /\ dl_pc' = "write"
    /\ UNCHANGED <<df, dl_index, dl_image, local_paths, updated_paths>>
    /\ UNCHANGED <<crawlVars, crawlingVars, depthVars, cleanVars, breadVars>>

\* line 127, second half: to_csv writes the rows of df_temp and closes the file
WriteOutput ==
    /\ dl_pc = "write"
    /\ output_file' = df_temp
    /\ dl_index' = dl_index + 1
    /\ dl_pc' = "loop"
    /\ UNCHANGED <<df, dl_image, local_paths, updated_paths>>
    /\ UNCHANGED <<crawlVars, crawlingVars, depthVars, cleanVars, breadVars>>

\* lines 132-135, first half: df[image_col] = updated_paths, and to_csv opens
\* output_file for writing
FinalOpen ==
    /\ dl_pc = "loop" /\ dl_index = Len(df)
    /\ output_file' = <<>>
    /\ dl_pc' = "final_write"
    /\ UNCHANGED <<df, dl_index, dl_image, local_paths, updated_paths>>
    /\ UNCHANGED <<crawlVars, crawlingVars, depthVars, cleanVars, breadVars>>

\* line 135, second half: to_csv writes the rows of df and closes the file
FinalWrite ==
    /\ dl_pc = "final_write"
    /\ output_file' = updated_paths
    /\ dl_pc' = "done"
    /\ UNCHANGED <<df, dl_index, dl_image, local_paths, updated_paths>>
    /\ UNCHANGED <<crawlVars, crawlingVars, depthVars, cleanVars, breadVars>>

\* Ctrl+C, or the process killed, anywhere in the loop
Interrupt ==
    /\ dl_pc \in {"loop", "images", "to_csv", "write", "final_write"}
    /\ dl_pc' = "interrupted"
    /\ UNCHANGED <<df, dl_index, dl_image, local_paths, updated_paths, output_file>>
    /\ UNCHANGED <<crawlVars, crawlingVars, depthVars, cleanVars, breadVars>>

NextDownload ==
    \/ StartProduct
    \/ DownloadImage
    \/ EndProduct
    \/ OpenOutput
    \/ WriteOutput
    \/ FinalOpen
    \/ FinalWrite
    \/ Interrupt

SpecDownload == InitDownload /\ [][NextDownload]_vars

\* what the file holds when the first n products are saved: their local paths,
\* and the original value of every other row
Progress(n) ==
    [k \in 1..Len(df) |-> IF k <= n THEN updated_paths[k] ELSE df[k].images]

\* C19: once a product has been processed and saved, an interruption finds in
\* the output CSV the local image paths of every product saved so far and the
\* original values of the others: it loses at most the product in progress.
C19_InterruptionKeepsProgress ==
    (dl_pc = "interrupted" /\ dl_index > 0) => output_file = Progress(dl_index)

(***************************************************************************)
(* crawling.py: crawl_category, for one page that the crawler yields.      *)
(***************************************************************************)
\* s.lstrip(c)
RECURSIVE LStrip(_, _)
LStrip(s, c) ==
    IF Len(s) > 0 /\ Char(s, 1) = c THEN LStrip(From(s, 2), c) ELSE s

\* path_parts = page.url.replace(urlparse(url).path, "").strip("/").split("/")
path_parts(page_url, url) ==
    Split(LStrip(RStrip(Remove(page_url, Path(url)), "/"), "/"), "/")

\* if len(path_parts) == TARGET_LEVEL - 1
is_level4(page_url, url) == Len(path_parts(page_url, url)) = TARGET_LEVEL - 1

\* save_csv(file_path, data): the file opened with mode "w", the header, the rows
save_csv(data) ==
    << <<"url", "title">> >> \o [i \in 1..Len(data) |-> <<data[i].url, data[i].title>>]

InitCrawling ==
    /\ CrawlIdle /\ DepthIdle /\ CleanIdle /\ BreadIdle /\ DownloadIdle
    /\ c4_pc = "pages"
    /\ c4_url \in Elements(CATEGORIES)
    /\ c4_page \in {c4_url \o t : t \in Strings(MaxTail)}
    /\ level4_data = <<>>
    /\ c4_file = <<>>

\* lines 37-40: the body of `async for page in crawler.arun(url=url)`, the page
\* having no title
PageCrawled ==
    /\ c4_pc = "pages"
    /\ level4_data' = IF is_level4(c4_page, c4_url)
                      THEN Append(level4_data, [url |-> c4_page, title |-> ""])
                      ELSE level4_data
    /\ c4_pc' = "save"
    /\ UNCHANGED <<c4_url, c4_page, c4_file>>
    /\ UNCHANGED <<crawlVars, depthVars, cleanVars, breadVars, downloadVars>>

\* line 42: save_csv(output_file, level4_data)
SaveCsv ==
    /\ c4_pc = "save"
    /\ c4_file' = save_csv(level4_data)
    /\ c4_pc' = "done"
    /\ UNCHANGED <<c4_url, c4_page, level4_data>>
    /\ UNCHANGED <<crawlVars, depthVars, cleanVars, breadVars, downloadVars>>

NextCrawling == PageCrawled \/ SaveCsv

SpecCrawling == InitCrawling /\ [][NextCrawling]_vars

\* the page has a row in the category's csv file
Recorded == \E i \in 2..Len(c4_file) : c4_file[i][1] = c4_page

\* C26: crawl_category of crawling.py records a crawled page as a level-4 URL
\* exactly when the page's depth under the category root (the number of non-empty
\* path segments below the root, plus one) is TARGET_LEVEL: it agrees with
\* depth_of of crawlers/crawler.py on every page URL.
C26_Level4AgreesWithDepthOf ==
    c4_pc = "done" =>
        /\ Recorded <=> (SegmentsBelow(c4_page, Path(c4_url)) + 1 = TARGET_LEVEL)
        /\ Recorded <=> (depth_of(c4_page, Path(c4_url)) = TARGET_LEVEL)

====
